---- MODULE Spec2Model ----
(***************************************************************************)
(* Model of the retrieval-and-persistence engine of fragarach:             *)
(*   - the paginated, rate-limited puller query_ethereum_transactions      *)
(*     (src/api/transpose.rs), with the single-call client query_transpose *)
(*   - the submit / poll / collect workflow scan_domain                    *)
(*     (src/api/urlscan.rs)                                                *)
(* Time is counted in milliseconds.  A Vec of records is kept as a         *)
(* sequence of batches [address, offset, n]: the n records the remote      *)
(* returned for the request (address, offset), in order.                   *)
(***************************************************************************)
EXTENDS Integers, Sequences, FiniteSets, TLC

VARIABLES
    \* ---- query_ethereum_transactions -------------------------------------
    transpose_api_key,   \* TRUE iff TRANSPOSE_API_KEY is set in the environment
    addresses,           \* the `addresses` argument
    addr_i,              \* position of the for loop in `addresses` (0 before it)
    offset,              \* `offset` of the current address
    all_transactions,    \* `all_transactions`, as a sequence of batches
    gap,                 \* ms between last_request_time and the call being made
    qpc,                 \* control position of query_ethereum_transactions
    qret,                \* its return value: "none", "Ok" or the error
    warnings,            \* number of size-limit warnings printed
    requests,            \* log: the HTTP requests sent, with the remote's answer
    shorts,              \* number of short (non-empty, < limit) pages served
    \* ---- scan_domain ------------------------------------------------------
    urlscan_api_key,     \* URLSCAN_API_KEY: "unset", "ok", or "badheader"
    sqlite_pool,         \* TRUE iff sqlite_pool is Some
    pg_pool,             \* TRUE iff pg_pool is Some
    spc,                 \* control position of scan_domain
    sret,                \* its return value: "none", "Ok" or the error
    initial_scan,        \* the parsed ScanResponse, NoScan before
    elapsed,             \* `elapsed` of the polling loop, ms
    full_scan,           \* the parsed full result, NoScan before
    http,                \* log: the HTTP requests sent, with their outcome
    wall,                \* wall-clock ms spent in the polling loop
    slow,                \* number of slow polls so far
    sqlite_domain,       \* SQLite table urlscan_domain_data, uuid -> row
    pg_domain,           \* PostgreSQL table urlscan_domain_data, uuid -> row
    sqlite_dom,          \* SQLite table urlscan_dom_snapshot, uuid -> dom
    pg_dom,              \* PostgreSQL table urlscan_dom_snapshot, uuid -> dom
    screenshot_file,     \* content of screenshots/{uuid}.png, NoFile if none
    writes,              \* log: the statements executed, with their outcome
    \* ---- the query menus of the CLI and the save functions ----------------
    table_name,          \* `table_name` the query menu saves to
    data,                \* `data`: the records the Transpose query returned
    save_as_sqlite,      \* config.save_as_sqlite
    save_as_postgres,    \* config.save_as_postgres
    sqlite_table,        \* SQLite table `table_name`, as a set of rows
    pg_table,            \* PostgreSQL table `table_name`, as a set of rows
    cpc,                 \* control position of the query menu
    rec_i,               \* position of the running save function in `data`
    sqlite_ret,          \* what save_to_sqlite returned: "none", "Ok", "Err"
    pg_ret,              \* what save_to_postgres returned
    cret,                \* what the query menu returned
    saves,               \* log: the statements the save functions executed
    round,               \* how many times the menu entry was run on `data`
    once                 \* the two tables as the first run left them

qvars == <<transpose_api_key, addresses, addr_i, offset, all_transactions,
           gap, qpc, qret, warnings, requests, shorts>>

svars == <<urlscan_api_key, sqlite_pool, pg_pool, spc, sret, initial_scan,
           elapsed, full_scan, http, wall, slow, sqlite_domain, pg_domain,
           sqlite_dom, pg_dom, screenshot_file, writes>>

cvars == <<table_name, data, save_as_sqlite, save_as_postgres, sqlite_table,
           pg_table, cpc, rec_i, sqlite_ret, pg_ret, cret, saves, round, once>>

vars == <<qvars, svars, cvars>>

\* ---------------------------------------------------------------------------
\* Bounds of the model
\* ---------------------------------------------------------------------------
MaxAddrs == 2          \* longest address list
MaxShort == 1          \* short pages the remote serves during one call
ShortSize == 40        \* number of records of a short page
MaxSlow == 2           \* slow poll answers during one scan

\* ---------------------------------------------------------------------------
\* Program constants
\* ---------------------------------------------------------------------------
Limit == 100                 \* let limit = 100
RateDelta == 1000            \* Duration::from_secs(1), in ms
RecordWeight == 1000         \* all_transactions.len() * 1000
SizeCap == 1000000           \* > 1_000_000
PollBackoff == 5000          \* sleep(Duration::from_secs(5)), in ms
PollTimeout == 120000        \* Duration::from_secs(120), in ms

Addrs == {"0xA", "0xB"}

\* what the measured `last_request_time.elapsed()` can be, and by how much
\* tokio's sleep may overshoot the requested duration
ElapsedChoices == {0, 400, 1000, 1700}
Oversleep == {0, 150}

RECURSIVE SeqsUpTo(_, _)
SeqsUpTo(S, n) ==
    IF n = 0 THEN {<<>>}
    ELSE LET shorter == SeqsUpTo(S, n - 1)
         IN shorter \cup {Append(s, x) : s \in {t \in shorter : Len(t) = n - 1}, x \in S}

\* ---------------------------------------------------------------------------
\* query_transpose: one call, one HTTP request at most
\* ---------------------------------------------------------------------------
\* The errors query_transpose can return after the request was sent.
TransposeErrors == {"Transport", "Status", "BadJson", "UnexpectedResponse"}

\* a 2xx body without a `results` array, as {:?} prints it
MalformedBody == "Object {\"message\": String(\"quota\")}"

\* the error value returned for each failure; for a body without `results`
\* it is format!("Unexpected API response: {:?}", result)
ErrorOf(e) ==
    IF e = "UnexpectedResponse" THEN "Unexpected API response: " \o MalformedBody ELSE e

\* Sizes of the `results` array of a successful answer.
PageSizes == {0, ShortSize, Limit}

\* ---------------------------------------------------------------------------
\* query_ethereum_transactions
\* ---------------------------------------------------------------------------
\* variant: counts the pages appended, not the records
VecLenBatches(v) == Len(v)

\* Vec::len of a vector kept as batches
RECURSIVE VecLen(_)
VecLen(v) == IF v = <<>> THEN 0 ELSE v[1].n + VecLen(Tail(v))

\* variant: sleeps for the time already elapsed instead of the remainder
SleepForElapsed(e) == IF e < RateDelta THEN e ELSE 0

\* sleep(Duration::from_secs(1) - elapsed) when elapsed < 1 s, no sleep otherwise
SleepFor(e) == IF e < RateDelta THEN RateDelta - e ELSE 0

\* variant: a page shorter than limit ends the stream
PageEndsStreamShort(n) == n < Limit

\* if transactions.is_empty() { break; }
PageEndsStream(n) == n = 0

\* variant: the offset advances by the number of records received
AdvanceOffsetByCount(o, n) == o + n

\* offset += limit
AdvanceOffset(o, n) == o + Limit

\* variant: the pull is truncated as soon as the cap is reached
CapBreachedAtCap(v) == VecLen(v) * RecordWeight >= SizeCap

\* if all_transactions.len() * 1000 > 1_000_000
CapBreached(v) == VecLen(v) * RecordWeight > SizeCap

Batch(a, o, n) == [address |-> a, offset |-> o, n |-> n]

Request(i, o, kind, n) ==
    [i |-> i, address |-> addresses[i], limit |-> Limit, offset |-> o,
     kind |-> kind, n |-> n]

\* variant: a request that fails is sent a second time
SendWithRetry(reqs, r) ==
    IF r.kind \in TransposeErrors THEN Append(Append(reqs, r), r) ELSE Append(reqs, r)

\* client.post(url)...send().await: the request goes out once
Send(reqs, r) == Append(reqs, r)

\* the `addresses` arguments: the strings are opaque to the code, so of the
\* lists that differ by a renaming only the one starting with "0xA" is taken
AddressLists == {a \in SeqsUpTo(Addrs, MaxAddrs) : a = <<>> \/ a[1] = "0xA"}

QInit ==
    /\ transpose_api_key \in BOOLEAN
    /\ addresses \in AddressLists
    /\ addr_i = 0
    /\ offset = 0
    /\ all_transactions = <<>>
    /\ gap = 0
    /\ qpc = "start"
    /\ qret = "none"
    /\ warnings = 0
    /\ requests = <<>>
    /\ shorts = 0

\* leaving the inner loop with `offset` = o: the for loop takes the next
\* address (let mut offset = 0), or the function returns Ok(all_transactions)
Break(o) ==
    IF addr_i < Len(addresses)
    THEN /\ addr_i' = addr_i + 1
         /\ offset' = 0
         /\ qpc' = "gate"
         /\ qret' = qret
    ELSE /\ qpc' = "done"
         /\ qret' = "Ok"
         /\ offset' = o
         /\ addr_i' = addr_i

\* entry: all_transactions = Vec::new(), last_request_time = Instant::now(),
\* and the for loop takes the first address
QStart ==
    /\ UNCHANGED <<svars, cvars>>
    /\ qpc = "start"
    /\ Break(offset)
    /\ UNCHANGED <<transpose_api_key, addresses, all_transactions, gap,
                   warnings, requests, shorts>>

\* the rate gate at the head of the inner loop
QGate ==
    /\ UNCHANGED <<svars, cvars>>
    /\ qpc = "gate"
    /\ \E e \in ElapsedChoices, over \in Oversleep :
          gap' = IF SleepFor(e) > 0 THEN e + SleepFor(e) + over ELSE e
    /\ qpc' = "call"
    /\ UNCHANGED <<transpose_api_key, addresses, addr_i, offset,
                   all_transactions, qret, warnings, requests, shorts>>

\* variant: the request goes out without a key before the error is returned
QCallNoKeySends ==
    /\ UNCHANGED <<svars, cvars>>
    /\ qpc = "call"
    /\ ~transpose_api_key
    /\ requests' = Send(requests, Request(addr_i, offset, "Status", 0))
    /\ qpc' = "done"
    /\ qret' = "KeyNotSet"
    /\ gap' = 0
    /\ UNCHANGED <<transpose_api_key, addresses, addr_i, offset,
                   all_transactions, warnings, shorts>>

\* query_transpose returns Err before sending: the key is not set
QCallNoKey ==
    /\ UNCHANGED <<svars, cvars>>
    /\ qpc = "call"
    /\ ~transpose_api_key
    /\ qpc' = "done"
    /\ qret' = "KeyNotSet"
    /\ gap' = 0
    /\ UNCHANGED <<transpose_api_key, addresses, addr_i, offset,
                   all_transactions, warnings, requests, shorts>>

\* variant: a body without `results` is returned as Ok(vec![])
QCallErrAsEmpty ==
    /\ UNCHANGED <<svars, cvars>>
    /\ qpc = "call"
    /\ transpose_api_key
    /\ \E e \in TransposeErrors :
          /\ requests' = Send(requests, Request(addr_i, offset, e, 0))
          /\ IF e = "UnexpectedResponse"
             THEN Break(offset)
             ELSE /\ qret' = ErrorOf(e) /\ qpc' = "done"
                  /\ UNCHANGED <<addr_i, offset>>
    /\ gap' = 0
    /\ UNCHANGED <<transpose_api_key, addresses, all_transactions, warnings, shorts>>

\* the request is sent and query_transpose returns Err; `?` returns it
QCallErr ==
    /\ UNCHANGED <<svars, cvars>>
    /\ qpc = "call"
    /\ transpose_api_key
    /\ \E e \in TransposeErrors :
          /\ requests' = Send(requests, Request(addr_i, offset, e, 0))
          /\ qret' = ErrorOf(e)
    /\ qpc' = "done"
    /\ gap' = 0
    /\ UNCHANGED <<transpose_api_key, addresses, addr_i, offset,
                   all_transactions, warnings, shorts>>

\* the request is sent and query_transpose returns Ok(results) with n records
QCallPage ==
    /\ UNCHANGED <<svars, cvars>>
    /\ qpc = "call"
    /\ transpose_api_key
    /\ \E n \in PageSizes :
          /\ (n # 0 /\ n # Limit) => shorts < MaxShort
          /\ shorts' = IF n # 0 /\ n # Limit THEN shorts + 1 ELSE shorts
          /\ requests' = Send(requests, Request(addr_i, offset, "Page", n))
          /\ gap' = 0
          /\ IF PageEndsStream(n)
             THEN /\ Break(offset)
                  /\ UNCHANGED <<all_transactions, warnings>>
             ELSE LET all == Append(all_transactions,
                                    Batch(addresses[addr_i], offset, n))
                  IN /\ all_transactions' = all
                     /\ IF CapBreached(all)
                        THEN /\ warnings' = warnings + 1
                             /\ Break(AdvanceOffset(offset, n))
                        ELSE /\ offset' = AdvanceOffset(offset, n)
                             /\ qpc' = "gate"
                             /\ UNCHANGED <<addr_i, qret, warnings>>
    /\ UNCHANGED <<transpose_api_key, addresses>>



\* ---------------------------------------------------------------------------
\* scan_domain: data
\* ---------------------------------------------------------------------------
NULL == "NULL"          \* SQL NULL
Absent == "absent"      \* a JSON field that is missing (Option::None)
NoScan == [uuid |-> "none"]
NoFile == "nofile"

domain == "new.example"                 \* the `domain` argument
UUIDs == {"u1"}                         \* handles the remote hands out

\* columns of urlscan_domain_data (id and created_at are generated by the
\* database and written by no statement of scan_domain)
Columns == {"domain", "uuid", "result_url", "api_url", "visibility",
            "useragent", "country", "screenshot_path", "asn", "ip", "title",
            "verdict_score", "verdict_brands"}
InitialColumns == {"domain", "uuid", "result_url", "api_url", "visibility",
                   "useragent", "country"}
\* ON CONFLICT (uuid) DO UPDATE SET ... of the PostgreSQL initial insert
PgConflictColumns == {"result_url", "api_url", "visibility", "useragent",
                      "country"}
DetailColumns == {"asn", "ip", "title", "verdict_score", "verdict_brands"}

\* a row left by an earlier scan that was given the same uuid
OldRow == [c \in Columns |-> IF c = "uuid" THEN "u1" ELSE "old"]
EmptyTable == [u \in {} |-> NULL]
Tables == {EmptyTable, [u \in {"u1"} |-> OldRow]}

\* bodies the remote can answer POST /scan/ with (struct ScanResponse)
ScanResponses ==
    {[uuid |-> u, result |-> "R", api |-> "A", visibility |-> "private",
      useragent |-> m, country |-> m] : u \in UUIDs, m \in {"present", Absent}}

\* bodies the remote can answer GET /result/{uuid}/ with
FullScans ==
    {[uuid |-> u, asn |-> m, ip |-> m, title |-> m, score |-> m, brands |-> m]
        : u \in UUIDs, m \in {"present", Absent}}

\* latency of one poll request, ms
PollLatencies == {200, 3000}
IsSlow(l) == l = 3000

\* variant: only server errors count as failures
IsSuccessLenient(status) == status \in 200..499

\* reqwest StatusCode::is_success
IsSuccess(status) == status \in 200..299

\* Option::unwrap_or
UnwrapOr(v, d) == IF v = Absent THEN d ELSE v

\* ---------------------------------------------------------------------------
\* scan_domain: the SQL statements
\* ---------------------------------------------------------------------------
Put(t, u, row) == [x \in (DOMAIN t) \cup {u} |-> IF x = u THEN row ELSE t[x]]

\* the seven values bound by the initial insert
InitialValues(d, r) ==
    [c \in InitialColumns |->
        CASE c = "domain" -> d
          [] c = "uuid" -> r.uuid
          [] c = "result_url" -> r.result
          [] c = "api_url" -> r.api
          [] c = "visibility" -> r.visibility
          [] c = "useragent" -> UnwrapOr(r.useragent, "N/A")
          [] c = "country" -> UnwrapOr(r.country, "N/A")]

\* variant: the initial statement is an UPDATE, which adds no row
SqliteInitialUpdateOnly(t, d, r) ==
    IF r.uuid \in DOMAIN t
    THEN Put(t, r.uuid, [c \in Columns |->
                            IF c \in InitialColumns THEN InitialValues(d, r)[c]
                            ELSE t[r.uuid][c]])
    ELSE t

\* INSERT OR REPLACE INTO urlscan_domain_data (domain, uuid, ...): a row with
\* the same uuid is deleted, the new row has NULL in the other columns
SqliteInitialInsert(t, d, r) ==
    Put(t, r.uuid, [c \in Columns |->
                       IF c \in InitialColumns THEN InitialValues(d, r)[c]
                       ELSE NULL])

\* INSERT INTO urlscan_domain_data ... ON CONFLICT (uuid) DO UPDATE SET ...
PgInitialInsert(t, d, r) ==
    IF r.uuid \in DOMAIN t
    THEN Put(t, r.uuid, [c \in Columns |->
                            IF c \in PgConflictColumns
                            THEN InitialValues(d, r)[c]
                            ELSE t[r.uuid][c]])
    ELSE Put(t, r.uuid, [c \in Columns |->
                            IF c \in InitialColumns THEN InitialValues(d, r)[c]
                            ELSE NULL])

\* the five values extracted from the full scan result
DetailValues(f) ==
    [c \in DetailColumns |->
        CASE c = "asn" -> UnwrapOr(f.asn, "N/A")
          [] c = "ip" -> UnwrapOr(f.ip, "N/A")
          [] c = "title" -> UnwrapOr(f.title, "N/A")
          [] c = "verdict_score" -> UnwrapOr(f.score, "N/A")
          [] c = "verdict_brands" -> UnwrapOr(f.brands, "[]")]

\* variant: the details are written with a replacing insert
UpdateDetailsReplace(t, u, f) ==
    Put(t, u, [c \in Columns |->
                  IF c \in DetailColumns THEN DetailValues(f)[c]
                  ELSE IF c = "uuid" THEN u ELSE NULL])

\* UPDATE urlscan_domain_data SET asn = .., ... WHERE uuid = ..
UpdateDetails(t, u, f) ==
    IF u \in DOMAIN t
    THEN Put(t, u, [c \in Columns |->
                       IF c \in DetailColumns THEN DetailValues(f)[c]
                       ELSE t[u][c]])
    ELSE t

\* format!("{}/{}.png", screenshots_dir, uuid)
ScreenshotPath(u) == "screenshots/" \o u \o ".png"

\* UPDATE urlscan_domain_data SET screenshot_path = .. WHERE uuid = ..
UpdatePath(t, u, path) ==
    IF u \in DOMAIN t
    THEN Put(t, u, [t[u] EXCEPT !["screenshot_path"] = path])
    ELSE t

\* INSERT OR REPLACE INTO urlscan_dom_snapshot (uuid, dom), and the
\* PostgreSQL INSERT ... ON CONFLICT (uuid) DO UPDATE SET dom = EXCLUDED.dom
DomUpsert(t, u, dom) == Put(t, u, dom)

\* bytes of a response body, by status
ScreenshotBody(status) == IF IsSuccess(status) THEN "png" ELSE "errorbody"
DomBody(status) == IF IsSuccess(status) THEN "dom" ELSE "errorbody"

\* ---------------------------------------------------------------------------
\* scan_domain: the workflow
\* ---------------------------------------------------------------------------
scfg == <<urlscan_api_key, sqlite_pool, pg_pool>>
spoll == <<elapsed, wall, slow>>
sdb == <<sqlite_domain, pg_domain, sqlite_dom, pg_dom>>

\* statuses the remote answers GET /result/{uuid}/ with
PollStatuses == {200, 404, 500}

\* res.status() == reqwest::StatusCode::OK
PollReady(status) == status = 200

\* variant: every answer that is not a result counts as "not finished yet"
PollPendingNot200(status) == status # 200

\* res.status() == reqwest::StatusCode::NOT_FOUND
PollPending(status) == status = 404

\* variant: a poll is still sent when elapsed has reached the ceiling
PollAgainInclusive(e) == e <= PollTimeout

\* while elapsed < timeout
PollAgain(e) == e < PollTimeout

\* variant: elapsed also counts the time the poll request took
AddBackoffWall(e, latency) == e + PollBackoff + latency

\* elapsed += Duration::from_secs(5)
AddBackoff(e, latency) == e + PollBackoff

Http(req, status) == [req |-> req, status |-> status]
Write(backend, stage, ok) == [backend |-> backend, stage |-> stage, ok |-> ok]

\* return values of scan_domain; status is 0 where the error carries none
NotReturned == [tag |-> "none", msg |-> "", status |-> 0]
Ok == [tag |-> "Ok", msg |-> "", status |-> 0]
Err(msg, status) == [tag |-> "Err", msg |-> msg, status |-> status]

\* variant: the exhausted loop reports the last poll status as a failure
TimeoutAsFailure ==
    [tag |-> "Err", msg |-> "Failed to retrieve scan result. Status", status |-> 404]

\* result_opt.ok_or("Timeout waiting for scan to complete.")? on None
TimeoutResult == Err("Timeout waiting for scan to complete.", 0)

\* variant: the error is dropped and the function ends with Ok(())
ReturnErrAsOk(msg, status) == spc' = "done" /\ sret' = Ok

\* `?` on an Err, or an explicit return Err(..)
ReturnErr(msg, status) == spc' = "done" /\ sret' = Err(msg, status)

SInit ==
    /\ urlscan_api_key \in {"unset", "ok", "badheader"}
    /\ sqlite_pool \in BOOLEAN
    /\ pg_pool \in BOOLEAN
    /\ spc = "start"
    /\ sret = NotReturned
    /\ initial_scan = NoScan
    /\ elapsed = 0
    /\ full_scan = NoScan
    /\ http = <<>>
    /\ wall = 0
    /\ slow = 0
    /\ sqlite_domain \in (IF sqlite_pool THEN Tables ELSE {EmptyTable})
    /\ pg_domain \in (IF pg_pool THEN Tables ELSE {EmptyTable})
    /\ sqlite_dom = [u \in DOMAIN sqlite_domain |-> "old"]
    /\ pg_dom = [u \in DOMAIN pg_domain |-> "old"]
    /\ screenshot_file = NoFile
    /\ writes = <<>>

\* the API key lookup and the request headers
SKey ==
    /\ UNCHANGED <<qvars, cvars>>
    /\ spc = "start"
    /\ CASE urlscan_api_key = "unset" -> ReturnErr("URLScan API key not set", 0)
         [] urlscan_api_key = "badheader" -> ReturnErr("InvalidHeaderValue", 0)
         [] OTHER -> spc' = "submit" /\ sret' = sret
    /\ UNCHANGED <<scfg, spoll, sdb, initial_scan, full_scan, http,
                   screenshot_file, writes>>

\* POST /scan/ and the parse of its answer
SSubmit ==
    /\ UNCHANGED <<qvars, cvars>>
    /\ spc = "submit"
    /\ \/ /\ http' = Append(http, Http("POST /scan/", 0))
          /\ ReturnErr("Transport", 0)
          /\ UNCHANGED initial_scan
       \/ \E status \in {200, 400, 429} :
             /\ http' = Append(http, Http("POST /scan/", status))
             /\ IF ~IsSuccess(status)
                THEN /\ ReturnErr("Initial URLScan request failed with status", status)
                     /\ UNCHANGED initial_scan
                ELSE \/ ReturnErr("BadJson", 0) /\ UNCHANGED initial_scan
                     \/ \E r \in ScanResponses :
                           /\ initial_scan' = r
                           /\ spc' = "initial_sqlite"
                           /\ sret' = sret
    /\ UNCHANGED <<scfg, spoll, sdb, full_scan, screenshot_file, writes>>

\* the initial record, SQLite
SInitialSqlite ==
    /\ UNCHANGED <<qvars, cvars>>
    /\ spc = "initial_sqlite"
    /\ IF sqlite_pool
       THEN \/ /\ sqlite_domain' = SqliteInitialInsert(sqlite_domain, domain, initial_scan)
               /\ writes' = Append(writes, Write("sqlite", "initial", TRUE))
               /\ spc' = "initial_pg" /\ sret' = sret
            \/ /\ writes' = Append(writes, Write("sqlite", "initial", FALSE))
               /\ ReturnErr("Sqlx", 0)
               /\ UNCHANGED sqlite_domain
       ELSE /\ spc' = "initial_pg"
            /\ UNCHANGED <<sret, sqlite_domain, writes>>
    /\ UNCHANGED <<scfg, spoll, pg_domain, sqlite_dom, pg_dom, initial_scan,
                   full_scan, http, screenshot_file>>

\* the initial record, PostgreSQL
SInitialPg ==
    /\ UNCHANGED <<qvars, cvars>>
    /\ spc = "initial_pg"
    /\ IF pg_pool
       THEN \/ /\ pg_domain' = PgInitialInsert(pg_domain, domain, initial_scan)
               /\ writes' = Append(writes, Write("pg", "initial", TRUE))
               /\ spc' = "poll" /\ sret' = sret
            \/ /\ writes' = Append(writes, Write("pg", "initial", FALSE))
               /\ ReturnErr("Sqlx", 0)
               /\ UNCHANGED pg_domain
       ELSE /\ spc' = "poll"
            /\ UNCHANGED <<sret, pg_domain, writes>>
    /\ UNCHANGED <<scfg, spoll, sqlite_domain, sqlite_dom, pg_dom, initial_scan,
                   full_scan, http, screenshot_file>>

\* one iteration of the polling loop: GET /result/{uuid}/
SPoll ==
    /\ UNCHANGED <<qvars, cvars>>
    /\ spc = "poll"
    /\ PollAgain(elapsed)
    /\ \E latency \in PollLatencies :
          /\ IsSlow(latency) => slow < MaxSlow
          /\ slow' = IF IsSlow(latency) THEN slow + 1 ELSE slow
          /\ \/ /\ http' = Append(http, Http("GET /result/", 0))
                /\ ReturnErr("Transport", 0)
                /\ wall' = wall + latency
                /\ UNCHANGED <<elapsed, full_scan>>
             \/ \E status \in PollStatuses :
                   /\ http' = Append(http, Http("GET /result/", status))
                   /\ IF PollReady(status)
                      THEN /\ wall' = wall + latency
                           /\ \/ ReturnErr("BadJson", 0) /\ UNCHANGED <<elapsed, full_scan>>
                              \/ \E f \in FullScans :
                                    /\ full_scan' = f
                                    /\ spc' = "details_sqlite"
                                    /\ UNCHANGED <<elapsed, sret>>
                      ELSE IF PollPending(status)
                      THEN /\ wall' = wall + latency + PollBackoff
                           /\ elapsed' = AddBackoff(elapsed, latency)
                           /\ UNCHANGED <<spc, sret, full_scan>>
                      ELSE /\ wall' = wall + latency
                           /\ ReturnErr("Failed to retrieve scan result. Status", status)
                           /\ UNCHANGED <<elapsed, full_scan>>
    /\ UNCHANGED <<scfg, sdb, initial_scan, screenshot_file, writes>>

\* variant: the timeout is recorded and the enrichment steps go on
STimeoutGoesOn ==
    /\ UNCHANGED <<qvars, cvars>>
    /\ spc = "poll"
    /\ ~PollAgain(elapsed)
    /\ spc' = "screenshot"
    /\ sret' = TimeoutResult
    /\ UNCHANGED <<scfg, spoll, sdb, initial_scan, full_scan, http,
                   screenshot_file, writes>>

\* the loop ends without a result: result_opt.ok_or("Timeout ...")?
STimeout ==
    /\ UNCHANGED <<qvars, cvars>>
    /\ spc = "poll"
    /\ ~PollAgain(elapsed)
    /\ spc' = "done"
    /\ sret' = TimeoutResult
    /\ UNCHANGED <<scfg, spoll, sdb, initial_scan, full_scan, http,
                   screenshot_file, writes>>

\* field extraction and the detail update, SQLite
SDetailsSqlite ==
    /\ UNCHANGED <<qvars, cvars>>
    /\ spc = "details_sqlite"
    /\ IF sqlite_pool
       THEN \/ /\ sqlite_domain' = UpdateDetails(sqlite_domain, initial_scan.uuid, full_scan)
               /\ writes' = Append(writes, Write("sqlite", "details", TRUE))
               /\ spc' = "details_pg" /\ sret' = sret
            \/ /\ writes' = Append(writes, Write("sqlite", "details", FALSE))
               /\ ReturnErr("Sqlx", 0)
               /\ UNCHANGED sqlite_domain
       ELSE /\ spc' = "details_pg"
            /\ UNCHANGED <<sret, sqlite_domain, writes>>
    /\ UNCHANGED <<scfg, spoll, pg_domain, sqlite_dom, pg_dom, initial_scan,
                   full_scan, http, screenshot_file>>

\* the detail update, PostgreSQL
SDetailsPg ==
    /\ UNCHANGED <<qvars, cvars>>
    /\ spc = "details_pg"
    /\ IF pg_pool
       THEN \/ /\ pg_domain' = UpdateDetails(pg_domain, initial_scan.uuid, full_scan)
               /\ writes' = Append(writes, Write("pg", "details", TRUE))
               /\ spc' = "screenshot" /\ sret' = sret
            \/ /\ writes' = Append(writes, Write("pg", "details", FALSE))
               /\ ReturnErr("Sqlx", 0)
               /\ UNCHANGED pg_domain
       ELSE /\ spc' = "screenshot"
            /\ UNCHANGED <<sret, pg_domain, writes>>
    /\ UNCHANGED <<scfg, spoll, sqlite_domain, sqlite_dom, pg_dom, initial_scan,
                   full_scan, http, screenshot_file>>

\* GET /screenshots/{uuid}.png, and the file written from its body
SScreenshot ==
    /\ UNCHANGED <<qvars, cvars>>
    /\ spc = "screenshot"
    /\ \/ /\ http' = Append(http, Http("GET /screenshots/", 0))
          /\ ReturnErr("Transport", 0)
          /\ UNCHANGED screenshot_file
       \/ \E status \in {200, 404} :
             /\ http' = Append(http, Http("GET /screenshots/", status))
             /\ \/ ReturnErr("Body", 0) /\ UNCHANGED screenshot_file
                \/ ReturnErr("Io", 0) /\ UNCHANGED screenshot_file
                \/ /\ screenshot_file' = ScreenshotBody(status)
                   /\ spc' = "path_sqlite"
                   /\ sret' = sret
    /\ UNCHANGED <<scfg, spoll, sdb, initial_scan, full_scan, writes>>

\* the screenshot path, SQLite
SPathSqlite ==
    /\ UNCHANGED <<qvars, cvars>>
    /\ spc = "path_sqlite"
    /\ IF sqlite_pool
       THEN \/ /\ sqlite_domain' = UpdatePath(sqlite_domain, initial_scan.uuid,
                                              ScreenshotPath(initial_scan.uuid))
               /\ writes' = Append(writes, Write("sqlite", "path", TRUE))
               /\ spc' = "path_pg" /\ sret' = sret
            \/ /\ writes' = Append(writes, Write("sqlite", "path", FALSE))
               /\ ReturnErr("Sqlx", 0)
               /\ UNCHANGED sqlite_domain
       ELSE /\ spc' = "path_pg"
            /\ UNCHANGED <<sret, sqlite_domain, writes>>
    /\ UNCHANGED <<scfg, spoll, pg_domain, sqlite_dom, pg_dom, initial_scan,
                   full_scan, http, screenshot_file>>

\* the screenshot path, PostgreSQL
SPathPg ==
    /\ UNCHANGED <<qvars, cvars>>
    /\ spc = "path_pg"
    /\ IF pg_pool
       THEN \/ /\ pg_domain' = UpdatePath(pg_domain, initial_scan.uuid,
                                          ScreenshotPath(initial_scan.uuid))
               /\ writes' = Append(writes, Write("pg", "path", TRUE))
               /\ spc' = "dom" /\ sret' = sret
            \/ /\ writes' = Append(writes, Write("pg", "path", FALSE))
               /\ ReturnErr("Sqlx", 0)
               /\ UNCHANGED pg_domain
       ELSE /\ spc' = "dom"
            /\ UNCHANGED <<sret, pg_domain, writes>>
    /\ UNCHANGED <<scfg, spoll, sqlite_domain, sqlite_dom, pg_dom, initial_scan,
                   full_scan, http, screenshot_file>>

\* GET /dom/{uuid}/ and the snapshot row, SQLite
SDom ==
    /\ UNCHANGED <<qvars, cvars>>
    /\ spc = "dom"
    /\ \/ /\ http' = Append(http, Http("GET /dom/", 0))
          /\ ReturnErr("Transport", 0)
          /\ UNCHANGED <<sqlite_dom, writes>>
       \/ \E status \in {200, 404} :
             /\ http' = Append(http, Http("GET /dom/", status))
             /\ \/ ReturnErr("Body", 0) /\ UNCHANGED <<sqlite_dom, writes>>
                \/ IF sqlite_pool
                   THEN \/ /\ sqlite_dom' = DomUpsert(sqlite_dom, initial_scan.uuid,
                                                      DomBody(status))
                           /\ writes' = Append(writes, Write("sqlite", "dom", TRUE))
                           /\ spc' = "dom_pg" /\ sret' = sret
                        \/ /\ writes' = Append(writes, Write("sqlite", "dom", FALSE))
                           /\ ReturnErr("Sqlx", 0)
                           /\ UNCHANGED sqlite_dom
                   ELSE /\ spc' = "dom_pg"
                        /\ UNCHANGED <<sret, sqlite_dom, writes>>
    /\ UNCHANGED <<scfg, spoll, sqlite_domain, pg_domain, pg_dom, initial_scan,
                   full_scan, screenshot_file>>

\* dom_data as it was read from the last GET /dom/ answer
DomData == DomBody(http[Len(http)].status)

\* the snapshot row, PostgreSQL, and the return of Ok(())
SDomPg ==
    /\ UNCHANGED <<qvars, cvars>>
    /\ spc = "dom_pg"
    /\ IF pg_pool
       THEN \/ /\ pg_dom' = DomUpsert(pg_dom, initial_scan.uuid, DomData)
               /\ writes' = Append(writes, Write("pg", "dom", TRUE))
               /\ spc' = "done" /\ sret' = Ok
            \/ /\ writes' = Append(writes, Write("pg", "dom", FALSE))
               /\ ReturnErr("Sqlx", 0)
               /\ UNCHANGED pg_dom
       ELSE /\ spc' = "done" /\ sret' = Ok
            /\ UNCHANGED <<pg_dom, writes>>
    /\ UNCHANGED <<scfg, spoll, sqlite_domain, pg_domain, sqlite_dom,
                   initial_scan, full_scan, http, screenshot_file>>

\* ---------------------------------------------------------------------------
\* The query menus and the save functions: data
\* ---------------------------------------------------------------------------
MaxBatch == 2          \* longest `data` a query returns

TableNames == {"ethereum_accounts", "ethereum_transactions"}

\* the conflict target save_to_postgres names; it is the PRIMARY KEY of the
\* table in both schemas
primary_key(t) == IF t = "ethereum_accounts" THEN "address" ELSE "transaction_hash"

\* the columns of the table the model follows: the key and two TEXT columns
FirstColumn(t) == IF t = "ethereum_accounts" THEN "created_timestamp" ELSE "from_address"
SecondColumn(t) == IF t = "ethereum_accounts" THEN "type" ELSE "to_address"
SchemaColumns(t) == {primary_key(t), FirstColumn(t), SecondColumn(t)}

Keys == {"k1", "k2"}

\* a serde_json::Value: a string, or a value of another kind (a number)
Str(s) == [kind |-> "string", s |-> s]
Num(s) == [kind |-> "number", s |-> s]

\* the JSON objects of `data`: all columns, a sparse object, a sparse object
\* with a number, and an object with a field the table has no column for
FullRecord(t, k) ==
    [c \in SchemaColumns(t) |-> IF c = primary_key(t) THEN Str(k) ELSE Str("v1")]
SparseRecord(t, k) ==
    [c \in {primary_key(t), FirstColumn(t)} |->
        IF c = primary_key(t) THEN Str(k) ELSE Str("v2")]
NumericRecord(t, k) ==
    [c \in {primary_key(t), FirstColumn(t)} |->
        IF c = primary_key(t) THEN Str(k) ELSE Num("7")]
UnexpectedRecord(t, k) ==
    [c \in {primary_key(t), "label"} |->
        IF c = primary_key(t) THEN Str(k) ELSE Str("x")]
Records(t) ==
    UNION {{FullRecord(t, k), SparseRecord(t, k), NumericRecord(t, k),
            UnexpectedRecord(t, k)} : k \in Keys}

\* value.as_str().unwrap_or("")
Bind(v) == IF v.kind = "string" THEN v.s ELSE ""

\* the statement names a column the table does not have
SchemaMismatch(t, record) == ~(DOMAIN record \subseteq SchemaColumns(t))

\* the row an INSERT of the record's columns creates
NewRow(t, record) ==
    [c \in SchemaColumns(t) |-> IF c \in DOMAIN record THEN Bind(record[c]) ELSE NULL]

KeyOf(t, record) == Bind(record[primary_key(t)])

\* a plain INSERT that leaves a row with the key in place
InsertOrReplaceKeep(tab, t, record) == tab \cup {NewRow(t, record)}

\* INSERT OR REPLACE INTO t (columns) VALUES (...): the row with the key is
\* deleted, the new row is inserted
InsertOrReplace(tab, t, record) ==
    {r \in tab : r[primary_key(t)] # KeyOf(t, record)} \cup {NewRow(t, record)}

\* INSERT INTO t (columns) VALUES (...) ON CONFLICT (pk) DO UPDATE SET
\* col = $i for the columns of the record
InsertOnConflictUpdate(tab, t, record) ==
    IF \E r \in tab : r[primary_key(t)] = KeyOf(t, record)
    THEN {IF r[primary_key(t)] = KeyOf(t, record)
          THEN [c \in SchemaColumns(t) |->
                   IF c \in DOMAIN record THEN Bind(record[c]) ELSE r[c]]
          ELSE r : r \in tab}
    ELSE tab \cup {NewRow(t, record)}

\* an entry of the log `saves`
Executed(backend, rnd, index, outcome) ==
    [backend |-> backend, round |-> rnd, index |-> index, outcome |-> outcome]

NoTables == <<{}, {}>>

MaxRounds == 2         \* times the menu entry is run on the same `data`

\* ---------------------------------------------------------------------------
\* The query menus and the save functions: steps
\* ---------------------------------------------------------------------------
CInit ==
    /\ table_name \in TableNames
    /\ data \in SeqsUpTo(Records(table_name), MaxBatch)
    /\ save_as_sqlite \in BOOLEAN
    /\ save_as_postgres \in BOOLEAN
    /\ sqlite_table = {}
    /\ pg_table = {}
    /\ cpc = "start"
    /\ rec_i = 0
    /\ sqlite_ret = "none"
    /\ pg_ret = "none"
    /\ cret = "none"
    /\ saves = <<>>
    /\ round = 1
    /\ once = NoTables

\* the query has returned `data`; query_ethereum_transactions returns when it
\* is empty; then the SQLite step is entered or skipped
QueryMenuSqlite ==
    /\ UNCHANGED <<qvars, svars>>
    /\ cpc = "start"
    /\ IF table_name = "ethereum_transactions" /\ data = <<>>
       THEN cpc' = "done" /\ cret' = "Ok" /\ rec_i' = rec_i
       ELSE IF save_as_sqlite /\ sqlite_pool
            THEN cpc' = "save_to_sqlite" /\ rec_i' = 1 /\ cret' = cret
            ELSE cpc' = "postgres" /\ UNCHANGED <<rec_i, cret>>
    /\ UNCHANGED <<table_name, data, save_as_sqlite, save_as_postgres,
                   sqlite_table, pg_table, sqlite_ret, pg_ret, saves, round, once>>

\* save_to_sqlite: one iteration of `for record in data`, or its Ok(()); an
\* error of execute is returned with `?`, and by the menu with `?` again
save_to_sqlite ==
    /\ UNCHANGED <<qvars, svars>>
    /\ cpc = "save_to_sqlite"
    /\ IF rec_i > Len(data)
       THEN /\ sqlite_ret' = "Ok" /\ cpc' = "postgres"
            /\ UNCHANGED <<sqlite_table, rec_i, cret, saves>>
       ELSE IF SchemaMismatch(table_name, data[rec_i])
            THEN /\ saves' = Append(saves, Executed("sqlite", round, rec_i, "schema"))
                 /\ sqlite_ret' = "Err" /\ cret' = "Err" /\ cpc' = "done"
                 /\ UNCHANGED <<sqlite_table, rec_i>>
            ELSE \/ /\ sqlite_table' = InsertOrReplace(sqlite_table, table_name, data[rec_i])
                    /\ saves' = Append(saves, Executed("sqlite", round, rec_i, "ok"))
                    /\ rec_i' = rec_i + 1
                    /\ UNCHANGED <<sqlite_ret, cret, cpc>>
                 \/ /\ saves' = Append(saves, Executed("sqlite", round, rec_i, "lost"))
                    /\ sqlite_ret' = "Err" /\ cret' = "Err" /\ cpc' = "done"
                    /\ UNCHANGED <<sqlite_table, rec_i>>
    /\ UNCHANGED <<table_name, data, save_as_sqlite, save_as_postgres,
                   pg_table, pg_ret, round, once>>

\* the PostgreSQL step of the menu is entered or skipped
QueryMenuPostgres ==
    /\ UNCHANGED <<qvars, svars>>
    /\ cpc = "postgres"
    /\ IF save_as_postgres /\ pg_pool
       THEN cpc' = "save_to_postgres" /\ rec_i' = 1 /\ cret' = cret
       ELSE cpc' = "done" /\ cret' = "Ok" /\ rec_i' = rec_i
    /\ UNCHANGED <<table_name, data, save_as_sqlite, save_as_postgres,
                   sqlite_table, pg_table, sqlite_ret, pg_ret, saves, round, once>>

\* save_to_postgres: one iteration of the loop, or its Ok(()); an error of
\* execute is printed and the loop goes on
save_to_postgres ==
    /\ UNCHANGED <<qvars, svars>>
    /\ cpc = "save_to_postgres"
    /\ IF rec_i > Len(data)
       THEN /\ pg_ret' = "Ok" /\ cret' = "Ok" /\ cpc' = "done"
            /\ UNCHANGED <<pg_table, rec_i, saves>>
       ELSE /\ rec_i' = rec_i + 1
            /\ UNCHANGED <<pg_ret, cret, cpc>>
            /\ IF SchemaMismatch(table_name, data[rec_i])
               THEN /\ saves' = Append(saves, Executed("pg", round, rec_i, "schema"))
                    /\ UNCHANGED pg_table
               ELSE \/ /\ pg_table' = InsertOnConflictUpdate(pg_table, table_name, data[rec_i])
                       /\ saves' = Append(saves, Executed("pg", round, rec_i, "ok"))
                    \/ /\ saves' = Append(saves, Executed("pg", round, rec_i, "lost"))
                       /\ UNCHANGED pg_table
    /\ UNCHANGED <<table_name, data, save_as_sqlite, save_as_postgres,
                   sqlite_table, sqlite_ret, round, once>>

\* the same menu entry is chosen again and the query returns the same `data`
RunAgain ==
    /\ UNCHANGED <<qvars, svars>>
    /\ cpc = "done"
    /\ round < MaxRounds
    /\ round' = round + 1
    /\ once' = IF round = 1 THEN <<sqlite_table, pg_table>> ELSE once
    /\ cpc' = "start"
    /\ rec_i' = 0
    /\ sqlite_ret' = "none" /\ pg_ret' = "none" /\ cret' = "none"
    /\ UNCHANGED <<table_name, data, save_as_sqlite, save_as_postgres,
                   sqlite_table, pg_table, saves>>

\* variant: records pulled before the failure are handed to the save steps
QueryMenuResultKeepsPartial ==
    /\ UNCHANGED svars
    /\ qpc = "done"
    /\ cpc = "idle"
    /\ IF qret = "Ok" /\ VecLen(all_transactions) = 0
       THEN cpc' = "done" /\ cret' = "Ok"
       ELSE IF qret = "Ok" \/ all_transactions # <<>>
            THEN cpc' = "start" /\ cret' = cret
            ELSE cpc' = "done" /\ cret' = "Err"
    /\ table_name' = "ethereum_transactions"
    /\ UNCHANGED <<qvars, data, save_as_sqlite, save_as_postgres, sqlite_table,
                   pg_table, rec_i, sqlite_ret, pg_ret, saves, round, once>>

\* the transactions menu gets the result of the pull: `?` returns an error,
\* an empty result returns Ok, and otherwise the save steps follow
QueryMenuResult ==
    /\ UNCHANGED svars
    /\ qpc = "done"
    /\ cpc = "idle"
    /\ IF qret = "Ok"
       THEN IF VecLen(all_transactions) = 0
            THEN cpc' = "done" /\ cret' = "Ok"
            ELSE cpc' = "start" /\ cret' = cret
       ELSE cpc' = "done" /\ cret' = "Err"
    /\ table_name' = "ethereum_transactions"
    /\ UNCHANGED <<qvars, data, save_as_sqlite, save_as_postgres, sqlite_table,
                   pg_table, rec_i, sqlite_ret, pg_ret, saves, round, once>>

\* the storage settings menu: the two flags are set to the user's selection
configure_storage_options ==
    /\ UNCHANGED <<qvars, svars>>
    /\ spc = "start"
    /\ save_as_sqlite' \in BOOLEAN
    /\ save_as_postgres' \in BOOLEAN
    /\ UNCHANGED <<table_name, data, sqlite_table, pg_table, cpc, rec_i,
                   sqlite_ret, pg_ret, cret, saves, round, once>>

\* ---------------------------------------------------------------------------
\* Specifications: one workflow runs per user-initiated operation
\* ---------------------------------------------------------------------------
QIdle ==
    /\ transpose_api_key = FALSE
    /\ addresses = <<>>
    /\ addr_i = 0
    /\ offset = 0
    /\ all_transactions = <<>>
    /\ gap = 0
    /\ qpc = "idle"
    /\ qret = "none"
    /\ warnings = 0
    /\ requests = <<>>
    /\ shorts = 0

ScanIdle ==
    /\ urlscan_api_key = "unset"
    /\ spc = "idle"
    /\ sret = NotReturned
    /\ initial_scan = NoScan
    /\ elapsed = 0
    /\ full_scan = NoScan
    /\ http = <<>>
    /\ wall = 0
    /\ slow = 0
    /\ sqlite_domain = EmptyTable
    /\ pg_domain = EmptyTable
    /\ sqlite_dom = EmptyTable
    /\ pg_dom = EmptyTable
    /\ screenshot_file = NoFile
    /\ writes = <<>>

SIdle == sqlite_pool = FALSE /\ pg_pool = FALSE /\ ScanIdle

SaveIdle ==
    /\ table_name = "ethereum_accounts"
    /\ data = <<>>
    /\ sqlite_table = {}
    /\ pg_table = {}
    /\ cpc = "idle"
    /\ rec_i = 0
    /\ sqlite_ret = "none"
    /\ pg_ret = "none"
    /\ cret = "none"
    /\ saves = <<>>
    /\ round = 1
    /\ once = NoTables

CIdle == save_as_sqlite = FALSE /\ save_as_postgres = FALSE /\ SaveIdle

\* a call of query_ethereum_transactions
PagInit == QInit /\ SIdle /\ CIdle
PagNext == QStart \/ QGate \/ QCallNoKey \/ QCallErr \/ QCallPage \/ QueryMenuResult
PagSpec == PagInit /\ [][PagNext]_vars

\* a call of scan_domain
ScanInit == SInit /\ QIdle /\ CIdle
ScanNext ==
    \/ SKey \/ SSubmit \/ SInitialSqlite \/ SInitialPg \/ SPoll \/ STimeout
    \/ SDetailsSqlite \/ SDetailsPg \/ SScreenshot \/ SPathSqlite \/ SPathPg
    \/ SDom \/ SDomPg
ScanSpec == ScanInit /\ [][ScanNext]_vars

\* either workflow
\* a query menu entry saving what the query returned
SaveInit ==
    /\ CInit /\ QIdle /\ ScanIdle
    /\ sqlite_pool \in BOOLEAN
    /\ pg_pool \in BOOLEAN
SaveNext ==
    QueryMenuSqlite \/ save_to_sqlite \/ QueryMenuPostgres \/ save_to_postgres \/ RunAgain
SaveSpec == SaveInit /\ [][SaveNext]_vars

\* a session of the program: main connects a pool for each backend that is
\* enabled at startup (the connection may fail), the user may then change
\* the storage settings, and scans a domain
SessionInit ==
    /\ SInit /\ QIdle /\ SaveIdle
    /\ save_as_sqlite \in BOOLEAN
    /\ save_as_postgres \in BOOLEAN
    /\ sqlite_pool => save_as_sqlite
    /\ pg_pool => save_as_postgres
SessionNext == configure_storage_options \/ ScanNext
SessionSpec == SessionInit /\ [][SessionNext]_vars

\* either API client is called
ApiInit == PagInit \/ ScanInit
ApiNext == PagNext \/ ScanNext
ApiSpec == ApiInit /\ [][ApiNext]_vars

Init == PagInit \/ ScanInit \/ SaveInit \/ SessionInit
Next == PagNext \/ ScanNext \/ SaveNext \/ configure_storage_options
Spec == Init /\ [][Next]_vars

\* ---------------------------------------------------------------------------
\* Properties of query_ethereum_transactions (checked under PagSpec)
\* ---------------------------------------------------------------------------
NonEmptyPage(r) == r.kind = "Page" /\ r.n > 0
EmptyPage(r) == r.kind = "Page" /\ r.n = 0
BatchOf(r) == [address |-> r.address, offset |-> r.offset, n |-> r.n]

\* C1 - Pagination termination: in a call for one address whose size cap is
\* not breached, no request follows an empty page, and when the call returns
\* Ok the n requests sent got non-empty pages 1..n-1 and the empty page n,
\* and the result is exactly the records of pages 1..n-1 in request order.
C1_PaginationTermination ==
    (Len(addresses) = 1 /\ warnings = 0) =>
        /\ \A i \in 1..(Len(requests) - 1) : NonEmptyPage(requests[i])
        /\ (qpc = "done" /\ qret = "Ok") =>
              LET n == Len(requests)
              IN /\ n >= 1
                 /\ EmptyPage(requests[n])
                 /\ all_transactions = [i \in 1..(n - 1) |-> BatchOf(requests[i])]

C1_Witness ==
    /\ Len(addresses) = 1 /\ warnings = 0
    /\ qpc = "done" /\ qret = "Ok"
    /\ Len(requests) = 4
    /\ requests[2].n = ShortSize
    /\ VecLen(all_transactions) = 2 * Limit + ShortSize

\* C2 (as claimed) - across a whole call, also over several addresses, the
\* offset of successive requests never decreases or resets: it grows by limit
\* after a non-empty page and is otherwise unchanged.
C2_OffsetNeverResets ==
    \A i \in 1..(Len(requests) - 1) :
        requests[i + 1].offset =
            requests[i].offset + (IF NonEmptyPage(requests[i]) THEN Limit ELSE 0)

\* C2 (amended) - within the requests for one address the offset starts at 0
\* and grows by exactly limit after each non-empty page; the first request
\* for the next address starts again at 0.
C2_OffsetMonotonePerAddress ==
    /\ requests # <<>> => requests[1].offset = 0
    /\ \A i \in 1..(Len(requests) - 1) :
          IF requests[i + 1].i = requests[i].i
          THEN /\ NonEmptyPage(requests[i])
               /\ requests[i + 1].offset = requests[i].offset + Limit
          ELSE requests[i + 1].offset = 0
    /\ qpc \in {"gate", "call"} =>
          offset = Limit * Cardinality({j \in 1..Len(requests) :
                                          requests[j].i = addr_i})

C2_Witness ==
    /\ Len(requests) >= 4
    /\ requests[Len(requests)].i = 2
    /\ requests[Len(requests)].offset = 2 * Limit
    /\ \E j \in 1..Len(requests) : requests[j].i = 1 /\ requests[j].offset = Limit
    /\ \E j \in 1..Len(requests) : requests[j].n = ShortSize

\* C3 - Size-cap truncation: once the truncation warning is out, no further
\* request is sent, and the call ends with Ok, never with an error.
C3_TruncationStopsRequests ==
    /\ [][warnings > 0 => requests' = requests]_vars
    /\ []((warnings > 0 /\ qpc = "done") => qret = "Ok")

\* C4 - Rate pacing: every call of query_transpose is made at least 1 s
\* after the previous one returned (after the function was entered, for the
\* first), also when the two calls belong to two addresses.
C4_RatePacing == qpc = "call" => gap >= RateDelta

C4_Witness ==
    /\ qpc = "call"
    /\ gap >= RateDelta
    /\ addr_i = 2 /\ offset = 0
    /\ requests # <<>> /\ requests[Len(requests)].i = 1

\* C22 - QueryClient never retries: a call of query_transpose adds at most one
\* request to those sent, and a request that failed (transport, non-2xx,
\* unreadable or malformed body) is the last request sent: the pull has ended
\* with that error.
C22_NoRetry ==
    /\ [](\A j \in 1..Len(requests) :
            requests[j].kind \in TransposeErrors =>
                /\ j = Len(requests)
                /\ qpc = "done"
                /\ qret = ErrorOf(requests[j].kind))
    /\ [][Len(requests') <= Len(requests) + 1]_vars

C22_Witness ==
    /\ qpc = "done"
    /\ Len(requests) = 3
    /\ requests[3].kind = "Status"
    /\ qret = "Status"

RECURSIVE RecordsUpTo(_)
RecordsUpTo(j) == IF j = 0 THEN 0 ELSE requests[j].n + RecordsUpTo(j - 1)
RECURSIVE OwnRecordsUpTo(_, _)
OwnRecordsUpTo(i, j) ==
    IF j = 0 THEN 0
    ELSE (IF requests[j].i = i THEN requests[j].n ELSE 0) + OwnRecordsUpTo(i, j - 1)
OverCap(count) == count * RecordWeight > SizeCap
ShortPage(r) == r.kind = "Page" /\ r.n > 0 /\ r.n < Limit
\* request j + 1 is the next page of the address of request j
ContinuedAfter(j) ==
    IF j < Len(requests)
    THEN /\ requests[j + 1].i = requests[j].i
         /\ requests[j + 1].offset = requests[j].offset + Limit
    ELSE /\ qpc \in {"gate", "call"}
         /\ addr_i = requests[j].i
         /\ offset = requests[j].offset + Limit

\* C24 - Short pages do not end pagination: after a non-empty page of fewer
\* than limit records that leaves the accumulated count within the cap, the
\* next request is for the same address with the offset advanced by limit;
\* the requests for an address stop only after an empty page or a page that
\* breached the cap (or with the error that ended the call).
C24_ShortPageContinues ==
    /\ \A j \in 1..Len(requests) :
          (ShortPage(requests[j]) /\ ~OverCap(RecordsUpTo(j))) => ContinuedAfter(j)
    /\ \A j \in 1..(Len(requests) - 1) :
          requests[j + 1].i # requests[j].i =>
              EmptyPage(requests[j]) \/ OverCap(RecordsUpTo(j))

C24_Witness ==
    /\ Len(requests) = 3
    /\ ShortPage(requests[1])
    /\ requests[2].i = 1 /\ requests[2].offset = Limit /\ requests[2].n = Limit
    /\ requests[3].offset = 2 * Limit
    /\ EmptyPage(requests[3])

C28_CapBoundary ==
    /\ warnings = Cardinality({j \in 1..Len(requests) :
                      NonEmptyPage(requests[j]) /\ OverCap(RecordsUpTo(j))})
    /\ \A j \in 1..Len(requests) :
          (NonEmptyPage(requests[j]) /\ RecordsUpTo(j) * RecordWeight = SizeCap)
              => ContinuedAfter(j)
    /\ VecLen(all_transactions) = RecordsUpTo(Len(requests))
    /\ all_transactions =
          SelectSeq([j \in 1..Len(requests) |-> BatchOf(requests[j])],
                    LAMBDA b : b.n > 0)

C28_Witness ==
    /\ qpc = "done" /\ qret = "Ok"
    /\ Len(addresses) = 1
    /\ warnings = 1
    /\ Len(requests) = 11
    /\ RecordsUpTo(10) * RecordWeight = SizeCap
    /\ VecLen(all_transactions) = 11 * Limit

\* C29 - Per-address independence: the requests for an address end with an
\* empty page or when the records of that address alone are over the cap,
\* whatever earlier addresses contributed.
C29_PerAddressIndependence ==
    \A j \in 1..Len(requests) :
        (IF j < Len(requests) THEN requests[j + 1].i # requests[j].i
                              ELSE qpc = "done" /\ qret = "Ok") =>
            EmptyPage(requests[j]) \/ OverCap(OwnRecordsUpTo(requests[j].i, j))

NothingSaved == saves = <<>> /\ sqlite_table = {} /\ pg_table = {}
PullFailed == qpc = "done" /\ qret # "Ok"

\* C30 - A failed page discards the pull: when a page request has failed or
\* the key was missing, the call has returned the error and not the records
\* held so far; the menu returns the error without entering a save step, so
\* nothing is written to a backend, and nothing follows.
C30_FailedPageDiscardsPull ==
    /\ [](\A j \in 1..Len(requests) :
            requests[j].kind \in TransposeErrors => PullFailed)
    /\ [](PullFailed =>
            /\ cpc \in {"idle", "done"}
            /\ cpc = "done" => cret = "Err"
            /\ NothingSaved)
    /\ [][(PullFailed /\ cpc = "done") => UNCHANGED vars]_vars

C30_Witness ==
    /\ PullFailed
    /\ qret = "Transport"
    /\ VecLen(all_transactions) = 2 * Limit
    /\ cpc = "done" /\ cret = "Err"

\* ---------------------------------------------------------------------------
\* Properties of scan_domain (checked under ScanSpec)
\* ---------------------------------------------------------------------------
Polls == SelectSeq(http, LAMBDA h : h.req = "GET /result/")
Posts == SelectSeq(http, LAMBDA h : h.req = "POST /scan/")
Sent(req) == \E j \in 1..Len(http) : http[j].req = req
Failed(req) == \E j \in 1..Len(http) : http[j].req = req /\ http[j].status \notin 200..299
Written(stage) == \E j \in 1..Len(writes) : writes[j].stage = stage
Collected == full_scan # NoScan
TimeoutMsg == "Timeout waiting for scan to complete."

\* C5 - Polling success path: elapsed is always 5 s times the number of 404
\* answers, whatever the wall clock says; a session is collected after k 404
\* answers, k < 24, and one 200 answer, with elapsed = k x 5 s; and a 200
\* answer whose body parses collects the session.
C5_PollingSuccessPath ==
    /\ elapsed = PollBackoff * Cardinality({j \in 1..Len(Polls) : Polls[j].status = 404})
    /\ Collected =>
          LET k == Len(Polls) - 1
          IN /\ k \in 0..23
             /\ \A j \in 1..k : Polls[j].status = 404
             /\ Polls[k + 1].status = 200
             /\ elapsed = k * PollBackoff
    /\ (Polls # <<>> /\ Polls[Len(Polls)].status = 200 /\ sret.msg # "BadJson")
          => Collected

C5_Witness ==
    /\ Collected
    /\ spc = "details_sqlite"
    /\ Len(Polls) = 24
    /\ elapsed = 23 * PollBackoff
    /\ slow = MaxSlow
    /\ wall > elapsed

\* C6 - Timeout boundary: a session whose polls were all answered 404 and
\* that has ended, ended with the timeout error, after the ceiling was
\* reached; and the timeout error is returned in no other case.
C6_TimeoutBoundary ==
    /\ (spc = "done" /\ Polls # <<>> /\ \A j \in 1..Len(Polls) : Polls[j].status = 404)
          => (sret = Err(TimeoutMsg, 0) /\ elapsed >= PollTimeout)
    /\ sret.msg = TimeoutMsg
          => (sret.tag = "Err" /\ ~Collected /\ Polls # <<>>
              /\ \A j \in 1..Len(Polls) : Polls[j].status = 404)

C6_Witness ==
    /\ spc = "done"
    /\ sret = Err(TimeoutMsg, 0)
    /\ Len(Polls) = 24
    /\ ~Written("details")

\* C7 - Terminal states are absorbing: a session that was collected does not
\* end with an error.
C7_CollectedStaysSuccess == (Collected /\ spc = "done") => sret = Ok

\* C8 - Best-effort screenshot: when the screenshot download failed, the scan
\* ends with Ok, no screenshot file and no screenshot path are written, and
\* the DOM is requested.
C8_ScreenshotBestEffort ==
    (Failed("GET /screenshots/") /\ spc = "done") =>
        /\ sret = Ok
        /\ screenshot_file = NoFile
        /\ ~Written("path")
        /\ Sent("GET /dom/")

\* C9 - Best-effort DOM: when the DOM download failed, the scan ends with Ok
\* and no dom-snapshot row is written.
C9_DomBestEffort ==
    (Failed("GET /dom/") /\ spc = "done") =>
        /\ sret = Ok
        /\ ~Written("dom")

RejectedSubmission ==
    /\ Posts # <<>>
    /\ Posts[1].status # 0
    /\ Posts[1].status \notin 200..299

AfterRejection ==
    RejectedSubmission =>
        /\ spc = "done"
        /\ sret = Err("Initial URLScan request failed with status", Posts[1].status)
        /\ Len(http) = 1
        /\ writes = <<>>

\* C10 (as claimed) - every invocation sends exactly one POST /scan/; after a
\* non-2xx answer it has ended with the status in the error, has sent nothing
\* else and has written nothing.
C10_ExactlyOnePost ==
    /\ spc = "done" => Len(Posts) = 1
    /\ AfterRejection

\* C10 (amended) - an invocation sends at most one POST /scan/: exactly one
\* once the API key was found and accepted as a header value, none when it
\* was not; after a non-2xx answer it has ended with the status in the error,
\* has sent nothing else and has written nothing.
C10_AtMostOnePost ==
    /\ Len(Posts) <= 1
    /\ (spc = "done" /\ urlscan_api_key = "ok") => Len(Posts) = 1
    /\ urlscan_api_key # "ok" => http = <<>>
    /\ AfterRejection

C10_Witness ==
    /\ RejectedSubmission
    /\ spc = "done"
    /\ sret.status = 429
    /\ sqlite_pool /\ pg_pool

PollFailed ==
    /\ Polls # <<>>
    /\ Polls[Len(Polls)].status \notin {0, 200, 404}

\* C11 - Unexpected poll status: a poll answered with a status other than
\* 200 and 404 is the last request of the session, which has ended with the
\* "Failed to retrieve" error carrying that status; no backoff was added for
\* it, and no enrichment fetch or write has happened. Such a status is never
\* followed by a further poll.
C11_UnexpectedStatusFails ==
    /\ \A j \in 1..(Len(Polls) - 1) : Polls[j].status = 404
    /\ PollFailed =>
          /\ spc = "done"
          /\ sret = Err("Failed to retrieve scan result. Status", Polls[Len(Polls)].status)
          /\ http[Len(http)] = Polls[Len(Polls)]
          /\ elapsed = PollBackoff * (Len(Polls) - 1)
          /\ ~Sent("GET /screenshots/") /\ ~Sent("GET /dom/")
          /\ ~Written("details") /\ ~Written("path") /\ ~Written("dom")
          /\ screenshot_file = NoFile

C11_Witness ==
    /\ PollFailed
    /\ Len(Polls) = 3
    /\ spc = "done"
    /\ sqlite_pool /\ pg_pool

Backends == {"sqlite", "pg"}
PoolOf(b) == IF b = "sqlite" THEN sqlite_pool ELSE pg_pool
DomainTable(b) == IF b = "sqlite" THEN sqlite_domain ELSE pg_domain
WroteOk(b, stage) == \E j \in 1..Len(writes) : writes[j] = Write(b, stage, TRUE)
RequestMetadata == {"result_url", "api_url", "visibility", "useragent", "country"}

\* C12 - Handle recorded before polling: from the moment the polling loop is
\* entered, and so when the session has ended after polling, every backend
\* whose pool is present has executed the initial insert and holds a row for
\* the uuid with the request metadata of the submission.
C12_HandleRecordedBeforePolling ==
    (spc = "poll" \/ Polls # <<>>) =>
        \A b \in Backends :
            PoolOf(b) =>
                /\ WroteOk(b, "initial")
                /\ initial_scan.uuid \in DOMAIN DomainTable(b)
                /\ DomainTable(b)[initial_scan.uuid]["uuid"] = initial_scan.uuid
                /\ \A c \in RequestMetadata :
                      DomainTable(b)[initial_scan.uuid][c]
                          = InitialValues(domain, initial_scan)[c]

C12_Witness ==
    /\ spc = "done"
    /\ sret.msg = TimeoutMsg
    /\ sqlite_pool /\ pg_pool
    /\ sqlite_domain["u1"]["asn"] = NULL
    /\ pg_domain["u1"]["asn"] = NULL
    /\ sqlite_domain["u1"]["domain"] = domain
    /\ pg_domain["u1"]["domain"] = domain

StageColumns(stage) ==
    CASE stage = "initial" -> InitialColumns
      [] stage = "details" -> DetailColumns
      [] stage = "path" -> {"screenshot_path"}
      [] OTHER -> {}

\* the columns the stages of this workflow have written so far on backend b
WrittenColumns(b) ==
    UNION {StageColumns(writes[j].stage) :
              j \in {i \in 1..Len(writes) : writes[i].backend = b /\ writes[i].ok}}

ComposedRow ==
    [c \in Columns |->
        IF c \in InitialColumns THEN InitialValues(domain, initial_scan)[c]
        ELSE IF c \in DetailColumns THEN DetailValues(full_scan)[c]
        ELSE ScreenshotPath(initial_scan.uuid)]

AllStagesWritten(b) ==
    WroteOk(b, "initial") /\ WroteOk(b, "details") /\ WroteOk(b, "path")

\* C14 - Staged upsert composition: on each backend, once the initial insert,
\* the detail update and the path update have been executed for the uuid,
\* the backend holds one record for the uuid with the fields of all stages.
C14_StagedComposition ==
    \A b \in Backends :
        AllStagesWritten(b) =>
            /\ initial_scan.uuid \in DOMAIN DomainTable(b)
            /\ DomainTable(b)[initial_scan.uuid] = ComposedRow

\* the composition as SQLite's INSERT OR REPLACE followed by the two UPDATEs
\* yields it
SqliteComposition ==
    AllStagesWritten("sqlite") =>
        /\ initial_scan.uuid \in DOMAIN sqlite_domain
        /\ sqlite_domain[initial_scan.uuid] = ComposedRow

Stages == {"initial", "details", "path", "dom"}
Sibling(b) == IF b = "sqlite" THEN "pg" ELSE "sqlite"
WriteFailed(b, stage) == \E j \in 1..Len(writes) : writes[j] = Write(b, stage, FALSE)
Attempted(b, stage) == WroteOk(b, stage) \/ WriteFailed(b, stage)

\* C15 - Multi-backend independence: with both pools present, when the write
\* of a stage has failed on one backend and the session has ended, the write
\* of that stage on the sibling backend has been attempted and has succeeded.
C15_BackendIndependence ==
    (sqlite_pool /\ pg_pool /\ spc = "done") =>
        \A b \in Backends : \A stage \in Stages :
            WriteFailed(b, stage) => WroteOk(Sibling(b), stage)

\* C20 - Sink failure does not block the remote side: when a backend write
\* has failed at some stage and the session has ended, the polling loop was
\* still entered and the screenshot and the DOM were still requested.
C20_SinkFailureNonBlocking ==
    (spc = "done" /\ \E b \in Backends : \E stage \in Stages : WriteFailed(b, stage)) =>
        /\ Polls # <<>>
        /\ Sent("GET /screenshots/")
        /\ Sent("GET /dom/")

SaveTable(b) == IF b = "sqlite" THEN sqlite_table ELSE pg_table
SaveRet(b) == IF b = "sqlite" THEN sqlite_ret ELSE pg_ret
Outcome(b, rnd, i, outcome) ==
    \E j \in 1..Len(saves) : saves[j] = Executed(b, rnd, i, outcome)
AllSaved(b, rnd) == \A i \in 1..Len(data) : Outcome(b, rnd, i, "ok")
NoLoss == \A j \in 1..Len(saves) : saves[j].outcome # "lost"
LastForKey(i) ==
    \A j \in (i + 1)..Len(data) : KeyOf(table_name, data[j]) # KeyOf(table_name, data[i])
KeyUnique(tab) ==
    \A r1 \in tab : \A r2 \in tab :
        r1[primary_key(table_name)] = r2[primary_key(table_name)] => r1 = r2

\* C16 - Last-write-wins upsert: once a save function has written every
\* record of the batch, the row stored for a key is the row of the last record
\* of the batch with that key alone: a column that record does not have is
\* NULL, whatever an earlier record with the key put there.
C16_LastWriteWins ==
    \A b \in Backends :
        (round = 1 /\ cpc = "done" /\ AllSaved(b, 1)) =>
            \A i \in 1..Len(data) :
                LastForKey(i) => NewRow(table_name, data[i]) \in SaveTable(b)

\* the full replace as save_to_sqlite's INSERT OR REPLACE gives it
SqliteLastWriteWins ==
    (round = 1 /\ cpc = "done" /\ AllSaved("sqlite", 1)) =>
        \A i \in 1..Len(data) :
            LastForKey(i) => NewRow(table_name, data[i]) \in sqlite_table

C18_SchemaMismatchSkipsOne ==
    \A b \in Backends : \A i \in 1..Len(data) :
        (round = 1 /\ cpc = "done" /\ NoLoss /\ Outcome(b, 1, i, "schema")) =>
            \A j \in (i + 1)..Len(data) :
                ~SchemaMismatch(table_name, data[j]) => Outcome(b, 1, j, "ok")

\* C19 - A lost connection is surfaced: when a statement of a save function
\* failed on a lost connection, the function has returned Err once it has
\* returned, and the statement was executed once only.
C19_ConnectionLostSurfaced ==
    \A b \in Backends : \A i \in 1..Len(data) :
        Outcome(b, round, i, "lost") =>
            /\ SaveRet(b) \in {"none", "Err"}
            /\ Cardinality({j \in 1..Len(saves) :
                    /\ saves[j].backend = b /\ saves[j].round = round
                    /\ saves[j].index = i}) = 1

\* the session ended TimedOut, or Failed on a poll answer
CoreFailure ==
    \/ sret = TimeoutResult
    \/ sret.tag = "Err" /\ sret.msg = "Failed to retrieve scan result. Status"

\* C23 - Core-result failures halt the scan: a session that ended TimedOut or
\* Failed has returned the error to its caller with no result collected, no
\* detail, path or DOM statement executed, no screenshot or DOM request sent
\* and no screenshot file written, and no step of the session follows.
C23_CoreFailureHalts ==
    /\ [](CoreFailure =>
            /\ spc = "done"
            /\ ~Collected
            /\ ~Written("details") /\ ~Written("path") /\ ~Written("dom")
            /\ ~Sent("GET /screenshots/") /\ ~Sent("GET /dom/")
            /\ screenshot_file = NoFile
            /\ http[Len(http)].req = "GET /result/")
    /\ [][CoreFailure => UNCHANGED vars]_vars

C23_Witness ==
    /\ CoreFailure
    /\ sret.status = 500
    /\ Len(Polls) = 2
    /\ sqlite_pool /\ pg_pool
    /\ WroteOk("sqlite", "initial") /\ WroteOk("pg", "initial")

\* C27 - Poll budget: a session sends at most 24 polls (120 s / 5 s), each of
\* them while elapsed is strictly below 120 s; elapsed never passes 120 s, and
\* a session that timed out has sent exactly 24 polls, all answered 404, and
\* has elapsed = 120 s exactly.
C27_PollBudget ==
    /\ [](/\ Len(Polls) <= PollTimeout \div PollBackoff
          /\ elapsed <= PollTimeout
          /\ sret = TimeoutResult =>
                /\ Len(Polls) = PollTimeout \div PollBackoff
                /\ \A j \in 1..Len(Polls) : Polls[j].status = 404
                /\ elapsed = PollTimeout)
    /\ [][Len(http') > Len(http) /\ http'[Len(http')].req = "GET /result/"
            => elapsed < PollTimeout]_vars

C27_Witness ==
    /\ sret = TimeoutResult
    /\ Len(Polls) = 24
    /\ elapsed = PollTimeout
    /\ wall > elapsed
    /\ sqlite_pool /\ ~pg_pool

NoWriteFailed == \A j \in 1..Len(writes) : writes[j].ok

\* C32 - Backends agree: with both pools present and no statement failed,
\* once a stage has been written on both backends the two rows for the uuid
\* hold the same value in every column of that stage, and the two DOM
\* snapshots are the same, whatever rows the tables held before the scan.
C32_BackendsAgree ==
    (sqlite_pool /\ pg_pool /\ NoWriteFailed) =>
        /\ \A stage \in {"initial", "details", "path"} :
              (WroteOk("sqlite", stage) /\ WroteOk("pg", stage)) =>
                  \A c \in StageColumns(stage) :
                      sqlite_domain[initial_scan.uuid][c] = pg_domain[initial_scan.uuid][c]
        /\ (WroteOk("sqlite", "dom") /\ WroteOk("pg", "dom")) =>
              sqlite_dom[initial_scan.uuid] = pg_dom[initial_scan.uuid]

\* the statements scan_domain executes when nothing fails, in order
StageOrder == <<"initial", "details", "path", "dom">>
ExpectedWrites ==
    LET all == [k \in 1..8 |->
                   Write(IF k % 2 = 1 THEN "sqlite" ELSE "pg", StageOrder[(k + 1) \div 2], TRUE)]
    IN SelectSeq(all, LAMBDA w : PoolOf(w.backend))

\* C33 - Success means fully persisted: when scan_domain has returned Ok the
\* submission was accepted, the last poll was answered 200 and its result
\* collected, and the statements executed are exactly the four stage writes,
\* all successful, on every backend whose pool is present, in the order
\* initial, details, path, DOM (SQLite before PostgreSQL in each stage).
C33_OkMeansPersisted ==
    (spc = "done" /\ sret = Ok) =>
        /\ Len(Posts) = 1 /\ IsSuccess(Posts[1].status)
        /\ Polls # <<>> /\ Polls[Len(Polls)].status = 200
        /\ Collected
        /\ writes = ExpectedWrites

C33_Witness ==
    /\ spc = "done" /\ sret = Ok
    /\ sqlite_pool /\ pg_pool
    /\ Len(writes) = 8
    /\ Len(Polls) = 3

\* ---------------------------------------------------------------------------
\* Properties of the two API clients (checked under ApiSpec)
\* ---------------------------------------------------------------------------
KeyError == Err("URLScan API key not set", 0)

\* C21 - Missing credential is fatal and sends nothing: without the Transpose
\* key no request is ever sent and a call that reaches query_transpose ends
\* with the key error; without the URLScan key scan_domain ends with the key
\* error, no HTTP request sent and no statement executed; nothing is written
\* to a backend, and no step follows the error (no retry).
C21_MissingKeyFatal ==
    /\ []((qpc # "idle" /\ ~transpose_api_key) =>
            /\ requests = <<>>
            /\ all_transactions = <<>>
            /\ NothingSaved
            /\ (qpc = "done" /\ addresses # <<>>) => qret = "KeyNotSet")
    /\ []((spc # "idle" /\ urlscan_api_key = "unset") =>
            /\ http = <<>>
            /\ writes = <<>>
            /\ spc \in {"start", "done"}
            /\ spc = "done" => sret = KeyError)
    /\ [][(qret = "KeyNotSet" \/ sret = KeyError) =>
              UNCHANGED <<qvars, svars, saves, sqlite_table, pg_table>>]_vars

C21_Witness ==
    /\ ~transpose_api_key
    /\ Len(addresses) = 2
    /\ qpc = "done" /\ qret = "KeyNotSet"
    /\ requests = <<>>

\* ---------------------------------------------------------------------------
\* Properties of a session with the settings menu (checked under SessionSpec)
\* ---------------------------------------------------------------------------
Enabled(b) == IF b = "sqlite" THEN save_as_sqlite ELSE save_as_postgres

\* C31 - Writes go only to enabled backends: every statement a scan executes
\* is executed on a backend that the configuration enables at that moment,
\* also after the storage settings were changed.
C31_WritesOnlyToEnabled ==
    \A j \in 1..Len(writes) : Enabled(writes[j].backend)

\* the query menus test the flag at each save step
QueryWritesOnlyToEnabled ==
    \A j \in 1..Len(saves) : Enabled(saves[j].backend) /\ PoolOf(saves[j].backend)

====
